---- MODULE Spec2Model ----
(***************************************************************************)
(* DigiBill: the bill-extraction pipeline of src/main.py.                  *)
(*                                                                         *)
(* A text (str) is a sequence of tokens; a token is a TLA+ string standing *)
(* for one character or for one run of non-blank characters.               *)
(***************************************************************************)
EXTENDS Integers, Sequences, FiniteSets, TLC

\* ------------------------------------------------------------------ bounds

\* Largest max_retries a direct call of call_gemini_with_retry is given.
MaxRetriesBound == 4
\* Largest number of pages of an uploaded document.
MaxPages == 2
\* Longest text given to extract_json_from_text token by token.
MaxTextLen == 4

\* --------------------------------------------------------------- constants

\* `max_retries: int = 3`
DefaultMaxRetries == 3
\* `10 * 1024 * 1024`
SizeLimit == 10485760

\* ------------------------------------------------------ the remote service

NoPayload == [hasCandidates |-> FALSE, text |-> <<>>]

\* What one requests.post can end in: a response with a status, a body
\* (resp.text) and a decoded payload (resp.json()), or a transport failure.
Timeout == [kind |-> "Timeout", status_code |-> 0, text |-> "", json |-> NoPayload]
ConnectionError ==
    [kind |-> "ConnectionError", status_code |-> 0, text |-> "", json |-> NoPayload]

Response(status, body, payload) ==
    [kind |-> "response", status_code |-> status, text |-> body, json |-> payload]

\* Texts the remote model answers with.
GemTexts ==
    { <<"{", "\"", "a", "\"", ":", "1", "}">>,
      <<"Here", " ", "{", "\"", "a", "\"", ":", "1", "}", " ", "thanks">>,
      <<"no", " ", "json">>,
      <<"{", "}">>,
      <<"{", "a", "}">> }

Payloads ==
    {NoPayload} \cup {[hasCandidates |-> TRUE, text |-> t] : t \in GemTexts}

\* Status codes the service answers with, besides 200.
OtherStatuses == {201, 400, 404, 429, 500, 503}

ErrorBodies == {"API key not valid", "Invalid JSON payload"}

Outcomes ==
    {Timeout, ConnectionError}
        \cup {Response(200, "", p) : p \in Payloads}
        \cup {Response(400, b, NoPayload) : b \in ErrorBodies}
        \cup {Response(s, "", NoPayload) : s \in OtherStatuses \ {400}}

\* ------------------------------------------------- call_gemini_with_retry

RECURSIVE Pow2(_)
Pow2(n) == IF n <= 0 THEN 1 ELSE 2 * Pow2(n - 1)

NoException == [type |-> "none", status_code |-> 0, detail |-> <<>>]

HTTPException(status, detail) ==
    [type |-> "HTTPException", status_code |-> status, detail |-> detail]

\* requests.exceptions.HTTPError, carrying the response's status.
HTTPError(status) == [type |-> "HTTPError", status_code |-> status, detail |-> <<>>]

\* How one iteration of the loop ends.
Return(payload) ==
    [ctl |-> "return", sleeps |-> <<>>, exc |-> NoException, value |-> payload]
Continue(seconds) ==
    [ctl |-> "continue", sleeps |-> <<seconds>>, exc |-> NoException, value |-> NoPayload]
ContinueNoSleep ==
    [ctl |-> "continue", sleeps |-> <<>>, exc |-> NoException, value |-> NoPayload]
FallOff ==
    [ctl |-> "next", sleeps |-> <<>>, exc |-> NoException, value |-> NoPayload]
Raise(e) ==
    [ctl |-> "raise", sleeps |-> <<>>, exc |-> e, value |-> NoPayload]

\* resp.raise_for_status(): an HTTPError for a 4xx or 5xx status.
RaisesForStatus(status) == status >= 400 /\ status < 600

\* OnTimeout sleeping after the last attempt too.
OnTimeout_AlwaysSleeps(attempt, max_retries) == Continue(Pow2(attempt))

\* except requests.exceptions.Timeout
OnTimeout(attempt, max_retries) ==
    IF attempt < max_retries - 1 THEN Continue(Pow2(attempt)) ELSE FallOff

\* except requests.exceptions.ConnectionError
OnConnectionError(attempt, max_retries) ==
    IF attempt < max_retries - 1 THEN Continue(Pow2(attempt)) ELSE FallOff

\* OnHTTPError going on to the next attempt after any 5xx status.
OnHTTPError_RetriesServerErrors(status, attempt, max_retries) ==
    IF status >= 500 /\ attempt < max_retries - 1
    THEN ContinueNoSleep
    ELSE Raise(HTTPError(status))

\* except requests.exceptions.HTTPError as e
OnHTTPError(status, attempt, max_retries) ==
    IF status \in {503, 429} /\ attempt < max_retries - 1
    THEN ContinueNoSleep
    ELSE Raise(HTTPError(status))

\* resp.raise_for_status(), reached when no branch of the chain returned,
\* continued or raised; its HTTPError is caught by the handler above.
AfterChain(resp, attempt, max_retries) ==
    IF RaisesForStatus(resp.status_code)
    THEN OnHTTPError(resp.status_code, attempt, max_retries)
    ELSE FallOff

\* OnResponse with the status-400 branch left to raise_for_status.
OnResponse_BadRequestFallsThrough(resp, attempt, max_retries) ==
    IF resp.status_code = 200
    THEN Return(resp.json)
    ELSE IF resp.status_code = 503
    THEN IF attempt < max_retries - 1
         THEN Continue(Pow2(attempt))
         ELSE AfterChain(resp, attempt, max_retries)
    ELSE IF resp.status_code = 429
    THEN IF attempt < max_retries - 1
         THEN Continue(5 * (attempt + 1))
         ELSE AfterChain(resp, attempt, max_retries)
    ELSE IF resp.status_code = 400
    THEN AfterChain(resp, attempt, max_retries)
    ELSE AfterChain(resp, attempt, max_retries)

\* OnResponse sleeping 2 * attempt for 2 ** attempt after a 503.
OnResponse_LinearBackoff(resp, attempt, max_retries) ==
    IF resp.status_code = 200
    THEN Return(resp.json)
    ELSE IF resp.status_code = 503
    THEN IF attempt < max_retries - 1
         THEN Continue(2 * attempt)
         ELSE AfterChain(resp, attempt, max_retries)
    ELSE IF resp.status_code = 429
    THEN IF attempt < max_retries - 1
         THEN Continue(5 * (attempt + 1))
         ELSE AfterChain(resp, attempt, max_retries)
    ELSE IF resp.status_code = 400
    THEN Raise(HTTPException(400, <<"Invalid API request: ", resp.text>>))
    ELSE AfterChain(resp, attempt, max_retries)

\* OnResponse sleeping 2 ** attempt after a 429 as after a 503.
OnResponse_RateLimitExponential(resp, attempt, max_retries) ==
    IF resp.status_code = 200
    THEN Return(resp.json)
    ELSE IF resp.status_code = 503
    THEN IF attempt < max_retries - 1
         THEN Continue(Pow2(attempt))
         ELSE AfterChain(resp, attempt, max_retries)
    ELSE IF resp.status_code = 429
    THEN IF attempt < max_retries - 1
         THEN Continue(Pow2(attempt))
         ELSE AfterChain(resp, attempt, max_retries)
    ELSE IF resp.status_code = 400
    THEN Raise(HTTPException(400, <<"Invalid API request: ", resp.text>>))
    ELSE AfterChain(resp, attempt, max_retries)

\* The if/elif chain on resp.status_code.
OnResponse(resp, attempt, max_retries) ==
    IF resp.status_code = 200
    THEN Return(resp.json)
    ELSE IF resp.status_code = 503
    THEN IF attempt < max_retries - 1
         THEN Continue(Pow2(attempt))
         ELSE AfterChain(resp, attempt, max_retries)
    ELSE IF resp.status_code = 429
    THEN IF attempt < max_retries - 1
         THEN Continue(5 * (attempt + 1))
         ELSE AfterChain(resp, attempt, max_retries)
    ELSE IF resp.status_code = 400
    THEN Raise(HTTPException(400, <<"Invalid API request: ", resp.text>>))
    ELSE AfterChain(resp, attempt, max_retries)

\* One iteration of `for attempt in range(max_retries)`.
Iteration(outcome, attempt, max_retries) ==
    IF outcome.kind = "Timeout"
    THEN OnTimeout(attempt, max_retries)
    ELSE IF outcome.kind = "ConnectionError"
    THEN OnConnectionError(attempt, max_retries)
    ELSE OnResponse(outcome, attempt, max_retries)

\* The raise after the loop.
AllRetriesFailed ==
    HTTPException(503, <<"Gemini API is currently unavailable. Please try again later.">>)

\* ------------------------------------------------------------------- texts

\* str.strip() removes these from both ends.
IsSpace(c) == c \in {" ", "\n", "\t", "\r", "\f"}

RECURSIVE LStrip(_)
LStrip(s) == IF s # <<>> /\ IsSpace(Head(s)) THEN LStrip(Tail(s)) ELSE s

RECURSIVE RStrip(_)
RStrip(s) ==
    IF s # <<>> /\ IsSpace(s[Len(s)]) THEN RStrip(SubSeq(s, 1, Len(s) - 1)) ELSE s

Strip(s) == RStrip(LStrip(s))

\* str.find(c): the 0-based index of the first c, or -1.
RECURSIVE FindFrom(_, _, _)
FindFrom(s, c, i) ==
    IF i >= Len(s) THEN -1
    ELSE IF s[i + 1] = c THEN i
    ELSE FindFrom(s, c, i + 1)

Find(s, c) == FindFrom(s, c, 0)

\* str.rfind(c): the 0-based index of the last c, or -1.
RECURSIVE RFindFrom(_, _, _)
RFindFrom(s, c, i) ==
    IF i < 0 THEN -1
    ELSE IF s[i + 1] = c THEN i
    ELSE RFindFrom(s, c, i - 1)

RFind(s, c) == RFindFrom(s, c, Len(s) - 1)

\* Slice taking s[a:b - 1]: the end index counted as inclusive.
Slice_EndInclusive(s, a, b) == SubSeq(s, a + 1, IF b - 1 > Len(s) THEN Len(s) ELSE b - 1)

\* s[a:b] for 0 <= a and 0 <= b.
Slice(s, a, b) == SubSeq(s, a + 1, IF b > Len(s) THEN Len(s) ELSE b)

\* sep.join(parts)
RECURSIVE Join(_, _)
Join(sep, parts) ==
    IF parts = <<>> THEN <<>>
    ELSE IF Len(parts) = 1 THEN parts[1]
    ELSE parts[1] \o sep \o Join(sep, Tail(parts))

\* -------------------------------------------------------------- json.loads

\* JSON values: t is "num", "str" or "obj"; an object o is a set of
\* [k |-> key, v |-> value] with one entry per key (a Python dict).
Num(n) == [t |-> "num", n |-> n, s |-> <<>>, o |-> {}]
Str(s) == [t |-> "str", n |-> 0, s |-> s, o |-> {}]
Obj(o) == [t |-> "obj", n |-> 0, s |-> <<>>, o |-> o]

\* d[k] = v
DictSet(d, k, v) == {e \in d : e.k # k} \cup {[k |-> k, v |-> v]}

HasKey(d, k) == \E e \in d : e.k = k
Get(d, k) == (CHOOSE e \in d : e.k = k).v

\* Falsy without the case of the empty dict.
Falsy_NotForEmptyDict(v) ==
    \/ v.t = "num" /\ v.n = 0
    \/ v.t = "str" /\ v.s = <<>>

\* `not x` for a JSON value.
Falsy(v) ==
    \/ v.t = "obj" /\ v.o = {}
    \/ v.t = "num" /\ v.n = 0
    \/ v.t = "str" /\ v.s = <<>>

\* The decoder's whitespace.
IsJsonWs(c) == c \in {" ", "\n", "\t", "\r"}

\* Characters a JSON string may not hold unescaped (strict mode).
IsControl(c) == c \in {"\n", "\t", "\r", "\f"}

Digits == {"0", "1", "2", "3", "4", "5", "6", "7", "8", "9"}

DigitVal(c) ==
    CASE c = "0" -> 0 [] c = "1" -> 1 [] c = "2" -> 2 [] c = "3" -> 3
      [] c = "4" -> 4 [] c = "5" -> 5 [] c = "6" -> 6 [] c = "7" -> 7
      [] c = "8" -> 8 [] c = "9" -> 9

\* s[p:p+1] at the 1-based position p; "" at the end of the text.
At(s, p) == IF p >= 1 /\ p <= Len(s) THEN s[p] ELSE ""

Parsed(pos, val) == [ok |-> TRUE, pos |-> pos, val |-> val, msg |-> ""]
\* json.JSONDecodeError(msg)
DecodeError(pos, msg) == [ok |-> FALSE, pos |-> pos, val |-> Num(0), msg |-> msg]

RECURSIVE SkipWs(_, _)
SkipWs(s, p) == IF IsJsonWs(At(s, p)) THEN SkipWs(s, p + 1) ELSE p

\* scanstring, from the position after the opening quote.
RECURSIVE ScanString(_, _, _)
ScanString(s, p, acc) ==
    IF p > Len(s) THEN DecodeError(p, "Unterminated string starting at")
    ELSE IF s[p] = "\"" THEN Parsed(p + 1, Str(acc))
    ELSE IF IsControl(s[p]) THEN DecodeError(p, "Invalid control character at")
    ELSE ScanString(s, p + 1, Append(acc, s[p]))

\* NUMBER_RE on digits: 0, or a nonzero digit and the digits after it.
RECURSIVE ScanDigits(_, _, _)
ScanDigits(s, p, n) ==
    IF At(s, p) \in Digits
    THEN ScanDigits(s, p + 1, 10 * n + DigitVal(s[p]))
    ELSE Parsed(p, Num(n))

ScanNumber(s, p) ==
    IF s[p] = "0" THEN Parsed(p + 1, Num(0)) ELSE ScanDigits(s, p, 0)

RECURSIVE ScanOnce(_, _)
RECURSIVE ScanPairs(_, _, _)

\* JSONObject's loop, from the position after a key's opening quote.
ScanPairs(s, p, pairs) ==
    LET key == ScanString(s, p, <<>>) IN
    IF ~key.ok THEN key
    ELSE LET colon == SkipWs(s, key.pos) IN
    IF At(s, colon) # ":" THEN DecodeError(colon, "Expecting ':' delimiter")
    ELSE LET value == ScanOnce(s, SkipWs(s, colon + 1)) IN
    IF ~value.ok THEN value
    ELSE LET sep == SkipWs(s, value.pos)
             dict == DictSet(pairs, key.val.s, value.val)
         IN
    IF At(s, sep) = "}" THEN Parsed(sep + 1, Obj(dict))
    ELSE IF At(s, sep) # "," THEN DecodeError(sep, "Expecting ',' delimiter")
    ELSE LET next == SkipWs(s, sep + 1) IN
    IF At(s, next) # "\""
    THEN DecodeError(next, "Expecting property name enclosed in double quotes")
    ELSE ScanPairs(s, next + 1, dict)

\* JSONObject, from the position after the opening brace.
ScanObject(s, p) ==
    LET first == SkipWs(s, p) IN
    IF At(s, first) = "}" THEN Parsed(first + 1, Obj({}))
    ELSE IF At(s, first) # "\""
    THEN DecodeError(first, "Expecting property name enclosed in double quotes")
    ELSE ScanPairs(s, first + 1, {})

\* scan_once: a string, an object or a number; anything else is no value.
ScanOnce(s, p) ==
    IF At(s, p) = "\"" THEN ScanString(s, p + 1, <<>>)
    ELSE IF At(s, p) = "{" THEN ScanObject(s, p + 1)
    ELSE IF At(s, p) \in Digits THEN ScanNumber(s, p)
    ELSE DecodeError(p, "Expecting value")

\* json.loads(s): one value, blanks around it, nothing after it.
JsonLoads(s) ==
    LET value == ScanOnce(s, SkipWs(s, 1)) IN
    IF ~value.ok THEN value
    ELSE IF SkipWs(s, value.pos) # Len(s) + 1
    THEN DecodeError(SkipWs(s, value.pos), "Extra data")
    ELSE value

\* ------------------------------------------------- extract_json_from_text

Key(name) == <<name>>

Dict3(k1, v1, k2, v2, k3, v3) ==
    Obj({[k |-> Key(k1), v |-> v1], [k |-> Key(k2), v |-> v2], [k |-> Key(k3), v |-> v3]})

\* extract_json_from_text giving json_str for text as raw_response of a decode error.
extract_json_from_text_RawIsSlice(text) ==
    LET start == Find(text, "{")
        end == RFind(text, "}")
    IN
    IF start = -1 \/ end = -1
    THEN Dict3("raw_response", Str(text),
               "error", Str(<<"Could not extract structured data">>),
               "suggestion", Str(<<"The AI response did not contain valid JSON format">>))
    ELSE LET json_str == Slice(text, start, end + 1)
             parsed_json == JsonLoads(json_str)
         IN
    IF ~parsed_json.ok
    THEN Dict3("raw_response", Str(json_str),
               "error", Str(<<"Invalid JSON format in response">>),
               "json_error", Str(<<parsed_json.msg>>))
    ELSE IF Falsy(parsed_json.val)
    THEN Dict3("raw_response", Str(text),
               "error", Str(<<"Unexpected error parsing response">>),
               "details", Str(<<"Empty JSON object">>))
    ELSE parsed_json.val

\* extract_json_from_text with `and` for `or` in the test of start and end.
extract_json_from_text_BothAbsent(text) ==
    LET start == Find(text, "{")
        end == RFind(text, "}")
    IN
    IF start = -1 /\ end = -1
    THEN Dict3("raw_response", Str(text),
               "error", Str(<<"Could not extract structured data">>),
               "suggestion", Str(<<"The AI response did not contain valid JSON format">>))
    ELSE LET json_str == Slice(text, start, end + 1)
             parsed_json == JsonLoads(json_str)
         IN
    IF ~parsed_json.ok
    THEN Dict3("raw_response", Str(text),
               "error", Str(<<"Invalid JSON format in response">>),
               "json_error", Str(<<parsed_json.msg>>))
    ELSE IF Falsy(parsed_json.val)
    THEN Dict3("raw_response", Str(text),
               "error", Str(<<"Unexpected error parsing response">>),
               "details", Str(<<"Empty JSON object">>))
    ELSE parsed_json.val

extract_json_from_text(text) ==
    LET start == Find(text, "{")
        end == RFind(text, "}")
    IN
    IF start = -1 \/ end = -1
    THEN Dict3("raw_response", Str(text),
               "error", Str(<<"Could not extract structured data">>),
               "suggestion", Str(<<"The AI response did not contain valid JSON format">>))
    ELSE LET json_str == Slice(text, start, end + 1)
             parsed_json == JsonLoads(json_str)
         IN
    IF ~parsed_json.ok
    THEN Dict3("raw_response", Str(text),
               "error", Str(<<"Invalid JSON format in response">>),
               "json_error", Str(<<parsed_json.msg>>))
    ELSE IF Falsy(parsed_json.val)
    THEN Dict3("raw_response", Str(text),
               "error", Str(<<"Unexpected error parsing response">>),
               "details", Str(<<"Empty JSON object">>))
    ELSE parsed_json.val

\* --------------------------------------------------------------------- OCR

\* What pytesseract.image_to_string gives for one page.
PageTexts == { <<>>, <<" ", "\n">>, <<"Total", " ", "42", "\n">> }

\* The bytes of a file, by what the OCR libraries make of them: fmt is what
\* the bytes encode, pages the text recognised on each page, unreadable the
\* page on which recognition throws (0: none), size the number of bytes.
NoFile == [fmt |-> "absent", pages |-> <<>>, unreadable |-> 0, size |-> 0]

RECURSIVE SeqsUpTo(_, _)
SeqsUpTo(S, n) ==
    IF n = 0 THEN {<<>>}
    ELSE LET shorter == SeqsUpTo(S, n - 1) IN
         shorter \cup {Append(q, x) : q \in shorter, x \in S}

AllDocuments ==
    {[fmt |-> "pdf", pages |-> ps, unreadable |-> u, size |-> n] :
        ps \in SeqsUpTo(PageTexts, MaxPages), u \in 0..MaxPages,
        n \in {SizeLimit, SizeLimit + 1}}
    \cup {[fmt |-> "image", pages |-> <<t>>, unreadable |-> u, size |-> n] :
        t \in PageTexts, u \in 0..1, n \in {SizeLimit, SizeLimit + 1}}
    \cup {[fmt |-> "other", pages |-> <<>>, unreadable |-> 0, size |-> SizeLimit]}

Documents == {doc \in AllDocuments : doc.unreadable <= Len(doc.pages)}

Ok(text) == [ok |-> TRUE, text |-> text, error |-> ""]
Failed(error) == [ok |-> FALSE, text |-> <<>>, error |-> error]

\* pytesseract.image_to_string(Image.open(path))
ocr_image(doc) ==
    IF doc.fmt # "image" THEN Failed("cannot identify image file")
    ELSE IF doc.unreadable = 1 THEN Failed("tesseract failed")
    ELSE Ok(doc.pages[1])

\* The marker of enumerate(pages) without start=1.
PageMarker_ZeroBased(i) ==
    <<"-----", " ", "Page", " ", ToString(i - 1), " ", "-----", "\n">>

\* f"----- Page {i} -----\n"
PageMarker(i) == <<"-----", " ", "Page", " ", ToString(i), " ", "-----", "\n">>

\* The loop of ocr_pdf over enumerate(pages, start=1): texts after page i.
RECURSIVE PageBlocks(_, _)
PageBlocks(pages, i) ==
    IF i = 0 THEN <<>>
    ELSE Append(PageBlocks(pages, i - 1), PageMarker(i) \o pages[i])

ocr_pdf(doc) ==
    IF doc.fmt # "pdf" THEN Failed("unable to get page count")
    ELSE IF doc.unreadable # 0 THEN Failed("tesseract failed")
    ELSE Ok(Join(<<"\n">>, PageBlocks(doc.pages, Len(doc.pages))))

\* ------------------------------------------------------------- upload_bill

\* file.filename as (root, extension), the way os.path.splitext cuts it.
Filenames ==
    { <<"bill", ".pdf">>, <<"bill", ".PDF">>, <<"scan", ".png">>, <<"notes", ".txt">> }

allowed_extensions == {".pdf", ".png", ".jpg", ".jpeg"}

\* str.lower() on the extensions of Filenames.
Lower(ext) == IF ext = ".PDF" THEN ".pdf" ELSE ext

file_extension(filename) == Lower(filename[2])

\* The f-string of the prompt around {text}.
BuildPrompt(text) ==
    <<"Extract ALL relevant information from this bill/invoice ...", "\n",
      "Bill Text:", "\n">>
        \o text
        \o <<"\n", "Return ONLY the JSON object, no explanation or markdown formatting.", "\n">>

NoContent == Obj({})

NoResponse == [kind |-> "none", status_code |-> 0, detail |-> <<>>, content |-> NoContent]

JSONResponse(content, status) ==
    [kind |-> "JSONResponse", status_code |-> status, detail |-> <<>>, content |-> content]

\* An HTTPException leaving upload_bill through `raise he`.
Raised(e) ==
    [kind |-> "HTTPException", status_code |-> e.status_code, detail |-> e.detail,
     content |-> NoContent]

\* TextOnly with raw_text taken from text.strip().
TextOnly_Stripped(text) ==
    Obj({[k |-> Key("error"), v |-> Str(<<"AI processing unavailable">>)],
         [k |-> Key("message"),
          v |-> Str(<<"Extracted text only (AI service temporarily unavailable)">>)],
         [k |-> Key("raw_text"), v |-> Str(Strip(text))],
         [k |-> Key("suggestion"),
          v |-> Str(<<"Please try again later or contact support">>)]})

\* The content returned when the call of the remote service raised.
TextOnly(text) ==
    Obj({[k |-> Key("error"), v |-> Str(<<"AI processing unavailable">>)],
         [k |-> Key("message"),
          v |-> Str(<<"Extracted text only (AI service temporarily unavailable)">>)],
         [k |-> Key("raw_text"), v |-> Str(text)],
         [k |-> Key("suggestion"),
          v |-> Str(<<"Please try again later or contact support">>)]})

\* The try block around the OCR: the text, or the HTTPException it raises.
ExtractText(doc, ext) ==
    LET got == IF ext = ".pdf" THEN ocr_pdf(doc) ELSE ocr_image(doc) IN
    IF ~got.ok
    THEN Failed(got.error)
    ELSE IF Strip(got.text) = <<>>
    THEN Failed("400: No text could be extracted from the file.")
    ELSE got

\* ------------------------------------------------------------------- state

VARIABLES
    caller,       \* who runs: "upload_bill", or "direct" for a call of
                  \* call_gemini_with_retry on its own
    file,         \* the UploadFile: [filename, content]
    uploads,      \* the directory UPLOAD_DIR: filename -> stored bytes
    pc,           \* where the request is
    text,         \* the OCR text
    prompt,       \* the argument of call_gemini_with_retry
    max_retries,  \* its other argument
    attempt,      \* the loop variable
    trace,        \* the posts and sleeps of the call so far, in order
    call_result,  \* how call_gemini_with_retry ended
    response,     \* what upload_bill gave its client
    reqs,         \* the upload_bill requests of parallel workers, by number
    rawText,      \* the argument of a call of extract_json_from_text
    embedded,     \* how rawText was put together, when around a JSON object
    normalized    \* what that call returned

\* The state of the parallel workers and of a lone extract_json_from_text.
otherVars == <<reqs, rawText, embedded, normalized>>

vars ==
    <<caller, file, uploads, pc, text, prompt, max_retries, attempt, trace,
      call_result, response, reqs, rawText, embedded, normalized>>

NoUpload == [filename |-> <<"", "">>, content |-> NoFile]

Running == [ctl |-> "none", exc |-> NoException, value |-> NoPayload]

NoOutcome == [kind |-> "none", status_code |-> 0, text |-> "", json |-> NoPayload]

\* The events of a call: requests.post of attempt i with its outcome, and
\* time.sleep(seconds).
Post(i, outcome) == [ev |-> "post", n |-> i, outcome |-> outcome]
Sleep(seconds) == [ev |-> "sleep", n |-> seconds, outcome |-> NoOutcome]

\* rawText as prefix \o the minified text of obj \o suffix.
NotEmbedded == [is |-> FALSE, prefix |-> <<>>, obj |-> Obj({}), suffix |-> <<>>]

NotNormalized == [done |-> FALSE, value |-> Obj({})]

InitUpload ==
    /\ caller = "upload_bill"
    /\ file \in [filename : Filenames, content : Documents]
    /\ pc = "validate"
    /\ prompt = <<>>
    /\ max_retries = DefaultMaxRetries

InitDirect ==
    /\ caller = "direct"
    /\ file = NoUpload
    /\ pc = "call"
    /\ prompt = <<"Hello">>
    /\ max_retries \in 0..MaxRetriesBound

Init ==
    /\ InitUpload \/ InitDirect
    /\ uploads = [f \in Filenames |-> NoFile]
    /\ text = <<>>
    /\ attempt = 0
    /\ trace = <<>>
    /\ call_result = Running
    /\ response = NoResponse
    /\ reqs = <<>>
    /\ rawText = <<>>
    /\ embedded = NotEmbedded
    /\ normalized = NotNormalized

\* upload_bill up to the size check: the two validations.
Validate ==
    /\ pc = "validate"
    /\ IF file_extension(file.filename) \notin allowed_extensions
       THEN /\ response' = Raised(HTTPException(400, <<"Unsupported file type: ",
                                                       file_extension(file.filename)>>))
            /\ pc' = "done"
       ELSE IF file.content.size > SizeLimit
       THEN /\ response' = Raised(HTTPException(400, <<"File size exceeds 10MB limit">>))
            /\ pc' = "done"
       ELSE /\ response' = response
            /\ pc' = "save"
    /\ UNCHANGED <<caller, file, uploads, text, prompt, max_retries, attempt, trace,
                   call_result>>
    /\ UNCHANGED otherVars

\* open(dest, "wb") and buf.write(content)
SaveFile ==
    /\ pc = "save"
    /\ uploads' = [uploads EXCEPT ![file.filename] = file.content]
    /\ pc' = "ocr"
    /\ UNCHANGED <<caller, file, text, prompt, max_retries, attempt, trace, call_result,
                   response>>
    /\ UNCHANGED otherVars

\* The OCR of the stored file; on success the prompt is built and
\* call_gemini_with_retry(prompt) is entered.
RunOCR ==
    /\ pc = "ocr"
    /\ LET got == ExtractText(uploads[file.filename], file_extension(file.filename)) IN
       IF got.ok
       THEN /\ text' = got.text
            /\ prompt' = BuildPrompt(got.text)
            /\ pc' = "call"
            /\ response' = response
       ELSE /\ response' = Raised(HTTPException(400,
                               <<"Failed to extract text from file: ", got.error>>))
            /\ pc' = "done"
            /\ UNCHANGED <<text, prompt>>
    /\ UNCHANGED <<caller, file, uploads, max_retries, attempt, trace, call_result>>
    /\ UNCHANGED otherVars

\* One iteration of the retry loop, for one outcome of requests.post.
Attempt ==
    /\ pc = "call"
    /\ attempt < max_retries
    /\ \E outcome \in Outcomes :
         LET r == Iteration(outcome, attempt, max_retries) IN
         /\ trace' = Append(trace, Post(attempt, outcome))
                        \o [i \in 1..Len(r.sleeps) |-> Sleep(r.sleeps[i])]
         /\ IF r.ctl \in {"continue", "next"}
            THEN /\ attempt' = attempt + 1
                 /\ UNCHANGED <<pc, call_result>>
            ELSE /\ call_result' = [ctl |-> r.ctl, exc |-> r.exc, value |-> r.value]
                 /\ pc' = "returned"
                 /\ attempt' = attempt
    /\ UNCHANGED <<caller, file, uploads, text, prompt, max_retries, response>>
    /\ UNCHANGED otherVars

\* The loop is over: the raise after it.
Exhausted ==
    /\ pc = "call"
    /\ attempt >= max_retries
    /\ call_result' = [ctl |-> "raise", exc |-> AllRetriesFailed, value |-> NoPayload]
    /\ pc' = "returned"
    /\ UNCHANGED <<caller, file, uploads, text, prompt, max_retries, attempt, trace,
                   response>>
    /\ UNCHANGED otherVars

\* upload_bill after call_gemini_with_retry: the text of the first candidate,
\* its normalisation, the removal of the stored file and the response; or the
\* text-only response when the call or the lookup raised.
AfterCall ==
    /\ pc = "returned"
    /\ caller = "upload_bill"
    /\ IF call_result.ctl = "return" /\ call_result.value.hasCandidates
       THEN /\ response' = JSONResponse(extract_json_from_text(call_result.value.text), 200)
            /\ uploads' = [uploads EXCEPT ![file.filename] = NoFile]
       ELSE /\ response' = JSONResponse(TextOnly(text), 202)
            /\ uploads' = uploads
    /\ pc' = "done"
    /\ UNCHANGED <<caller, file, text, prompt, max_retries, attempt, trace, call_result>>
    /\ UNCHANGED otherVars

Next == Validate \/ SaveFile \/ RunOCR \/ Attempt \/ Exhausted \/ AfterCall

Spec == Init /\ [][Next]_vars

\* call_gemini_with_retry called on its own. Its statements run one after the
\* other, requests.post is given timeout=30 and every time.sleep is finite:
\* a step of the loop that can be taken is taken.
CallInit == Init /\ caller = "direct"

CallNext == Attempt \/ Exhausted

SpecCall == CallInit /\ [][CallNext]_vars /\ WF_vars(CallNext)

\* --------------------------------------------- requests in parallel workers

\* Two workers, each running upload_bill for one request, over the one
\* directory UPLOAD_DIR.
Requests == {1, 2}

ConcFilenames == { <<"bill", ".pdf">>, <<"scan", ".png">> }

ConcDocuments ==
    { [fmt |-> "pdf", pages |-> << <<"Total", " ", "42", "\n">> >>, unreadable |-> 0,
       size |-> SizeLimit],
      [fmt |-> "pdf", pages |-> << <<" ", "\n">> >>, unreadable |-> 0, size |-> SizeLimit],
      [fmt |-> "pdf", pages |-> << <<>> >>, unreadable |-> 1, size |-> SizeLimit],
      [fmt |-> "image", pages |-> << <<"Total", " ", "42", "\n">> >>, unreadable |-> 0,
       size |-> SizeLimit] }

ConcOutcomes ==
    { Timeout,
      Response(200, "", [hasCandidates |-> TRUE,
                         text |-> <<"{", "\"", "a", "\"", ":", "1", "}">>]),
      Response(400, "API key not valid", NoPayload),
      Response(503, "", NoPayload) }

NotRead == [done |-> FALSE, content |-> NoFile]

\* call_gemini_with_retry as a whole, for the outcomes its attempts meet.
RECURSIVE RunCall(_, _, _)
RunCall(outcomes, i, retries) ==
    IF i >= retries
    THEN [ctl |-> "raise", exc |-> AllRetriesFailed, value |-> NoPayload]
    ELSE LET r == Iteration(outcomes[i + 1], i, retries) IN
         IF r.ctl \in {"continue", "next"}
         THEN RunCall(outcomes, i + 1, retries)
         ELSE [ctl |-> r.ctl, exc |-> r.exc, value |-> r.value]

ConcInit ==
    /\ reqs \in [Requests ->
                   [file : [filename : ConcFilenames, content : ConcDocuments],
                    pc : {"validate"}, read : {NotRead}, text : {<<>>},
                    call_result : {Running}, response : {NoResponse}]]
    /\ uploads = [f \in Filenames |-> NoFile]
    /\ caller = "workers"
    /\ file = NoUpload
    /\ pc = "idle"
    /\ text = <<>>
    /\ prompt = <<>>
    /\ max_retries = DefaultMaxRetries
    /\ attempt = 0
    /\ trace = <<>>
    /\ call_result = Running
    /\ response = NoResponse
    /\ rawText = <<>>
    /\ embedded = NotEmbedded
    /\ normalized = NotNormalized

singleVars ==
    <<caller, file, pc, text, prompt, max_retries, attempt, trace, call_result, response,
      rawText, embedded, normalized>>

\* Validate, for the request r of a worker.
WorkerValidate(r) ==
    /\ reqs[r].pc = "validate"
    /\ LET f == reqs[r].file IN
       IF file_extension(f.filename) \notin allowed_extensions
       THEN reqs' = [reqs EXCEPT ![r].pc = "done",
                       ![r].response = Raised(HTTPException(400,
                           <<"Unsupported file type: ", file_extension(f.filename)>>))]
       ELSE IF f.content.size > SizeLimit
       THEN reqs' = [reqs EXCEPT ![r].pc = "done",
                       ![r].response = Raised(HTTPException(400,
                           <<"File size exceeds 10MB limit">>))]
       ELSE reqs' = [reqs EXCEPT ![r].pc = "save"]
    /\ UNCHANGED <<uploads, singleVars>>

\* SaveFile, for the request r of a worker.
WorkerSaveFile(r) ==
    /\ reqs[r].pc = "save"
    /\ uploads' = [uploads EXCEPT ![reqs[r].file.filename] = reqs[r].file.content]
    /\ reqs' = [reqs EXCEPT ![r].pc = "ocr"]
    /\ UNCHANGED singleVars

\* RunOCR, for the request r of a worker: it reads what is stored at dest.
WorkerRunOCR(r) ==
    /\ reqs[r].pc = "ocr"
    /\ LET stored == uploads[reqs[r].file.filename]
           got == ExtractText(stored, file_extension(reqs[r].file.filename))
       IN
       IF got.ok
       THEN reqs' = [reqs EXCEPT ![r].pc = "call", ![r].text = got.text,
                       ![r].read = [done |-> TRUE, content |-> stored]]
       ELSE reqs' = [reqs EXCEPT ![r].pc = "done",
                       ![r].read = [done |-> TRUE, content |-> stored],
                       ![r].response = Raised(HTTPException(400,
                           <<"Failed to extract text from file: ", got.error>>))]
    /\ UNCHANGED <<uploads, singleVars>>

\* The call of call_gemini_with_retry(prompt) of the request r.
WorkerCall(r) ==
    /\ reqs[r].pc = "call"
    /\ \E outcomes \in [1..DefaultMaxRetries -> ConcOutcomes] :
         reqs' = [reqs EXCEPT ![r].pc = "returned",
                    ![r].call_result = RunCall(outcomes, 0, DefaultMaxRetries)]
    /\ UNCHANGED <<uploads, singleVars>>

\* AfterCall, for the request r of a worker.
WorkerAfterCall(r) ==
    /\ reqs[r].pc = "returned"
    /\ LET res == reqs[r].call_result IN
       IF res.ctl = "return" /\ res.value.hasCandidates
       THEN /\ reqs' = [reqs EXCEPT ![r].pc = "done",
                          ![r].response =
                              JSONResponse(extract_json_from_text(res.value.text), 200)]
            /\ uploads' = [uploads EXCEPT ![reqs[r].file.filename] = NoFile]
       ELSE /\ reqs' = [reqs EXCEPT ![r].pc = "done",
                          ![r].response = JSONResponse(TextOnly(reqs[r].text), 202)]
            /\ uploads' = uploads
    /\ UNCHANGED singleVars

ConcNext ==
    \E r \in Requests :
        \/ WorkerValidate(r)
        \/ WorkerSaveFile(r)
        \/ WorkerRunOCR(r)
        \/ WorkerCall(r)
        \/ WorkerAfterCall(r)

SpecConc == ConcInit /\ [][ConcNext]_vars

\* ------------------------------------------- extract_json_from_text, alone

\* The tokens the short texts are made of.
NormAlphabet == {"{", "}", "\"", ":", "1", "a", " "}

ShortTexts == SeqsUpTo(NormAlphabet, MaxTextLen)

\* The decimal digits of n >= 0.
RECURSIVE NumToDigits(_)
NumToDigits(n) ==
    IF n < 10 THEN <<ToString(n)>>
    ELSE Append(NumToDigits(n \div 10), ToString(n % 10))

\* The minified JSON text of a value: no blanks, "," and ":" as separators.
RECURSIVE Dumps(_)
RECURSIVE DumpPairs(_)
DumpPairs(d) ==
    IF d = {} THEN <<>>
    ELSE LET e == CHOOSE x \in d : TRUE
             rest == d \ {e}
         IN <<"\"">> \o e.k \o <<"\"", ":">> \o Dumps(e.v)
                \o (IF rest = {} THEN <<>> ELSE <<",">> \o DumpPairs(rest))

Dumps(v) ==
    IF v.t = "num" THEN NumToDigits(v.n)
    ELSE IF v.t = "str" THEN <<"\"">> \o v.s \o <<"\"">>
    ELSE <<"{">> \o DumpPairs(v.o) \o <<"}">>

\* The values of the objects that are embedded in a text.
MemberValues ==
    { Num(0), Num(12), Str(<<>>), Str(<<"x", " ", "}">>), Obj({}),
      Obj({[k |-> <<"a">>, v |-> Num(1)]}) }

MemberKeys == { <<"a">>, <<"b">> }

JsonObjects ==
    {Obj({})}
        \cup {Obj({[k |-> key, v |-> val]}) : key \in MemberKeys, val \in MemberValues}
        \cup {Obj({[k |-> <<"a">>, v |-> v1], [k |-> <<"b">>, v |-> v2]}) :
                 v1 \in MemberValues, v2 \in MemberValues}

\* Texts without a brace, put before and after an embedded object.
Prefixes == { <<>>, <<"Here", " ", "is", " ", "data", ":", " ">>, <<"\"", "\n">> }
Suffixes == { <<>>, <<" ", "thanks">>, <<"\n">> }

Embedded(prefix, obj, suffix) ==
    [is |-> TRUE, prefix |-> prefix, obj |-> obj, suffix |-> suffix]

NormInit ==
    /\ \/ /\ rawText \in ShortTexts
          /\ embedded = NotEmbedded
       \/ \E prefix \in Prefixes, obj \in JsonObjects, suffix \in Suffixes :
             /\ rawText = prefix \o Dumps(obj) \o suffix
             /\ embedded = Embedded(prefix, obj, suffix)
    /\ normalized = NotNormalized
    /\ caller = "normalizer"
    /\ reqs = <<>>
    /\ uploads = [f \in Filenames |-> NoFile]
    /\ file = NoUpload
    /\ pc = "idle"
    /\ text = <<>>
    /\ prompt = <<>>
    /\ max_retries = DefaultMaxRetries
    /\ attempt = 0
    /\ trace = <<>>
    /\ call_result = Running
    /\ response = NoResponse

\* extract_json_from_text(rawText)
Normalize ==
    /\ caller = "normalizer"
    /\ ~normalized.done
    /\ normalized' = [done |-> TRUE, value |-> extract_json_from_text(rawText)]
    /\ UNCHANGED <<caller, file, uploads, pc, text, prompt, max_retries, attempt, trace,
                   call_result, response, reqs, rawText, embedded>>

NormNext == Normalize

SpecNorm == NormInit /\ [][NormNext]_vars

\* ------------------------------------------------------------------ claims

IsPost(e) == e.ev = "post"
IsSleep(e) == e.ev = "sleep"
Posts(tr) == SelectSeq(tr, IsPost)
Sleeps(tr) == SelectSeq(tr, IsSleep)

HasStatus(e, status) ==
    IsPost(e) /\ e.outcome.kind = "response" /\ e.outcome.status_code = status
IsTransport(e) == IsPost(e) /\ e.outcome.kind \in {"Timeout", "ConnectionError"}
IsTransient(e) == HasStatus(e, 503) \/ HasStatus(e, 429) \/ IsTransport(e)

CallOver == call_result.ctl # "none"
ServiceUnavailable ==
    /\ call_result.ctl = "raise"
    /\ call_result.exc.type = "HTTPException"
    /\ call_result.exc.status_code = 503
InvalidRequest ==
    /\ call_result.ctl = "raise"
    /\ call_result.exc.type = "HTTPException"
    /\ call_result.exc.status_code = 400

\* The response is the text-only (degraded) result.
IsTextOnly(r) ==
    /\ r.kind = "JSONResponse"
    /\ r.status_code = 202
    /\ HasKey(r.content.o, Key("raw_text"))
\* The response is a hard failure: an HTTPException reached the client.
IsHardFailure(r) == r.kind = "HTTPException"

\* C1: a call that made max_retries >= 1 attempts, each of them failing with
\* status 503, status 429 or a transport failure, ends in ServiceUnavailable.
C1_ExhaustionIsServiceUnavailable ==
    (/\ CallOver
     /\ max_retries >= 1
     /\ Len(Posts(trace)) = max_retries
     /\ \A j \in 1..Len(trace) : IsPost(trace[j]) => IsTransient(trace[j]))
        => ServiceUnavailable

\* C2: when the call made for an upload ends in InvalidRequest, upload_bill
\* fails hard with a status-400 error and does not give the text-only result.
C2_InvalidRequestIsHardFailure ==
    (caller = "upload_bill" /\ pc = "done" /\ InvalidRequest)
        => (/\ IsHardFailure(response)
            /\ response.status_code = 400
            /\ ~IsTextOnly(response))

\* C3: when upload_bill has finished, the document it stored is no longer in
\* the upload directory, whichever way it finished.
C3_StoredDocumentDeletedOnExit ==
    (caller = "upload_bill" /\ pc = "done") => uploads[file.filename] = NoFile

AllBlank(doc) == \A i \in 1..Len(doc.pages) : Strip(doc.pages[i]) = <<>>

\* C4: an accepted document whose pages all recognise as blanks never gets as
\* far as the remote call, and ends in the extraction error.
C4_BlankDocumentIsExtractionError ==
    (caller = "upload_bill" /\ AllBlank(file.content))
        => (/\ pc \notin {"call", "returned"}
            /\ trace = <<>>
            /\ (pc = "done" => IsHardFailure(response) /\ response.status_code = 400))

\* C5: a status-400 response on attempt i ends the call there: it is the last
\* event of the call (no wait after it, no later attempt), and the call raises
\* InvalidRequest whose detail carries the body of that response.
C5_BadRequestEndsCallAtOnce ==
    \A j \in 1..Len(trace) :
        HasStatus(trace[j], 400)
            => (/\ j = Len(trace)
                /\ pc # "call"
                /\ InvalidRequest
                /\ call_result.exc.detail = <<"Invalid API request: ", trace[j].outcome.text>>)

C5_BadRequestOnLaterAttempt ==
    /\ Len(trace) >= 3
    /\ HasStatus(trace[Len(trace)], 400)
    /\ trace[Len(trace)].n = 1
    /\ trace[Len(trace)].outcome.text = "API key not valid"
    /\ InvalidRequest

Is2xx(e) ==
    /\ IsPost(e)
    /\ e.outcome.kind = "response"
    /\ e.outcome.status_code >= 200
    /\ e.outcome.status_code < 300

\* C6: a response with any 2xx status ends the call there, with no wait and no
\* later attempt, and the call returns that response's payload.
C6_Every2xxIsSuccess ==
    \A j \in 1..Len(trace) :
        Is2xx(trace[j])
            => (/\ j = Len(trace)
                /\ call_result.ctl = "return"
                /\ call_result.value = trace[j].outcome.json)

\* The trace has status 503 on attempts 0..k-1 and status 200 on attempt k.
UnavailableThenSuccess(k) ==
    /\ Len(Posts(trace)) = k + 1
    /\ \A i \in 1..k : HasStatus(Posts(trace)[i], 503)
    /\ HasStatus(Posts(trace)[k + 1], 200)

\* C7: after status 503 on attempts 0..k-1 and status 200 on attempt k, the
\* call has slept exactly k times, 2^i seconds after attempt i, nothing after
\* attempt k, and has returned the payload of attempt k.
C7_ExponentialWaitsThenSuccess ==
    \A k \in 0..Len(trace) :
        UnavailableThenSuccess(k)
            => (/\ Len(trace) = 2 * k + 1
                /\ \A i \in 0..(k - 1) :
                      /\ IsPost(trace[2 * i + 1]) /\ trace[2 * i + 1].n = i
                      /\ trace[2 * i + 2] = Sleep(2 ^ i)
                /\ IsPost(trace[2 * k + 1]) /\ trace[2 * k + 1].n = k
                /\ k < max_retries
                /\ call_result.ctl = "return"
                /\ call_result.value = trace[2 * k + 1].outcome.json)

C7_TwoUnavailableThenSuccess ==
    /\ UnavailableThenSuccess(2)
    /\ Sleeps(trace) = <<Sleep(1), Sleep(2)>>
    /\ call_result.ctl = "return"
    /\ call_result.value.hasCandidates

\* C8: a status-429 response on attempt i < max_retries - 1 is followed by
\* exactly one sleep, of 5 * (i + 1) seconds, and then by attempt i + 1.
C8_RateLimitedWaitsLinear ==
    \A j \in 1..Len(trace) :
        (HasStatus(trace[j], 429) /\ trace[j].n < max_retries - 1)
            => (/\ Len(trace) >= j + 1
                /\ trace[j + 1] = Sleep(5 * (trace[j].n + 1))
                /\ trace[j + 1] # Sleep(2 ^ trace[j].n)
                /\ IF Len(trace) >= j + 2
                   THEN IsPost(trace[j + 2]) /\ trace[j + 2].n = trace[j].n + 1
                   ELSE pc = "call" /\ attempt = trace[j].n + 1)

C8_RateLimitedOnSecondAttempt ==
    /\ Len(trace) >= 5
    /\ HasStatus(trace[3], 429)
    /\ trace[3].n = 1
    /\ trace[4] = Sleep(10)
    /\ IsPost(trace[5])

\* C9: whenever an attempt i ended in a status-503 response, a timeout or a
\* connection error, each of the three outcomes ends iteration i the same way:
\* the same sleep (2^i seconds when i < max_retries - 1, none on the last
\* attempt), the same advance to attempt i + 1, the same way out of the call.
C9_TransportFailureLikeUnavailable ==
    \A j \in 1..Len(trace) :
        (HasStatus(trace[j], 503) \/ IsTransport(trace[j]))
            => LET i == trace[j].n
                   on503 == Iteration(Response(503, "", NoPayload), i, max_retries)
               IN
               /\ on503 = Iteration(Timeout, i, max_retries)
               /\ on503 = Iteration(ConnectionError, i, max_retries)
               /\ on503.sleeps = IF i < max_retries - 1 THEN <<2 ^ i>> ELSE <<>>

\* C10: when the call made for an upload ends in ServiceUnavailable,
\* upload_bill answers with the text-only result: status 202, an error marker,
\* a message, and raw_text equal to the text the OCR gave for the document.
C10_ServiceUnavailableDegrades ==
    (caller = "upload_bill" /\ pc = "done" /\ ServiceUnavailable)
        => (/\ ~IsHardFailure(response)
            /\ response.kind = "JSONResponse"
            /\ response.status_code = 202
            /\ response.status_code # 200
            /\ HasKey(response.content.o, Key("error"))
            /\ HasKey(response.content.o, Key("message"))
            /\ HasKey(response.content.o, Key("raw_text"))
            /\ Get(response.content.o, Key("raw_text"))
                  = Str(ExtractText(file.content, file_extension(file.filename)).text)
            /\ ExtractText(file.content, file_extension(file.filename)).ok)

C10_DegradedAfterThreeTimeouts ==
    /\ caller = "upload_bill"
    /\ pc = "done"
    /\ ServiceUnavailable
    /\ Len(Posts(trace)) = DefaultMaxRetries
    /\ IsTextOnly(response)
    /\ Get(response.content.o, Key("raw_text")).s # Strip(text)

\* C11: while a request of a worker is between storing its document and the
\* end of its processing, the upload directory holds at its path the content
\* that request stored, and what its text extractor read is that content.
C11_RequestsOwnTheirDocument ==
    \A r \in DOMAIN reqs :
        /\ reqs[r].pc \in {"ocr", "call", "returned"}
              => uploads[reqs[r].file.filename] = reqs[r].file.content
        /\ reqs[r].read.done => reqs[r].read.content = reqs[r].file.content

\* The mapping has the shape of a FallbackEnvelope.
IsFallbackEnvelope(v) ==
    v.t = "obj" /\ HasKey(v.o, Key("raw_response")) /\ HasKey(v.o, Key("error"))

HasError(v, message) ==
    v.t = "obj" /\ HasKey(v.o, Key("error")) /\ Get(v.o, Key("error")) = Str(<<message>>)

HasOpen(t) == \E i \in 1..Len(t) : t[i] = "{"
HasClose(t) == \E i \in 1..Len(t) : t[i] = "}"

\* C12: extract_json_from_text returns a mapping for every text; when the
\* mapping is a FallbackEnvelope, its raw_response is the whole text and its
\* error is a non-empty string.
C12_NormalizerAlwaysReturnsMapping ==
    normalized.done
        => (/\ normalized.value.t = "obj"
            /\ IsFallbackEnvelope(normalized.value)
                  => (/\ Get(normalized.value.o, Key("raw_response")) = Str(rawText)
                      /\ Get(normalized.value.o, Key("error")).t = "str"
                      /\ Get(normalized.value.o, Key("error")).s # <<>>))

C12_EnvelopeForTextAroundBadJson ==
    /\ normalized.done
    /\ IsFallbackEnvelope(normalized.value)
    /\ rawText = <<"a", "{", "a", "}">>
    /\ Get(normalized.value.o, Key("raw_response")) = Str(rawText)

\* text[start:end + 1] for the first "{" and the last "}" of a text with both.
FirstOpen(t) == CHOOSE i \in 1..Len(t) : t[i] = "{" /\ \A j \in 1..(i - 1) : t[j] # "{"
LastClose(t) == CHOOSE i \in 1..Len(t) : t[i] = "}" /\ \A j \in (i + 1)..Len(t) : t[j] # "}"
BraceSpan(t) == SubSeq(t, FirstOpen(t), LastClose(t))

\* C13: for a text with a "{" and a "}" whose span from the first "{" to the
\* last "}" is no JSON, the result is the envelope with error 'Invalid JSON
\* format in response', raw_response the text, and a field named details.
C13_InvalidJsonEnvelopeHasDetails ==
    (/\ normalized.done
     /\ HasOpen(rawText)
     /\ HasClose(rawText)
     /\ ~JsonLoads(BraceSpan(rawText)).ok)
        => (/\ HasError(normalized.value, "Invalid JSON format in response")
            /\ Get(normalized.value.o, Key("raw_response")) = Str(rawText)
            /\ HasKey(normalized.value.o, Key("details")))

\* The text is "{", blanks, "}": the JSON text of the empty object.
IsEmptyObjectText(t) ==
    /\ Len(t) >= 2
    /\ t[1] = "{"
    /\ t[Len(t)] = "}"
    /\ \A i \in 2..(Len(t) - 1) : t[i] \in {" ", "\n", "\t", "\r"}

\* C14: for a text whose span from the first "{" to the last "}" is the empty
\* object, the result is the envelope with error 'Unexpected error parsing
\* response', raw_response the text and a details field, never an empty dict.
C14_EmptyObjectIsEnvelope ==
    (/\ normalized.done
     /\ HasOpen(rawText)
     /\ HasClose(rawText)
     /\ IsEmptyObjectText(BraceSpan(rawText)))
        => (/\ HasError(normalized.value, "Unexpected error parsing response")
            /\ Get(normalized.value.o, Key("raw_response")) = Str(rawText)
            /\ HasKey(normalized.value.o, Key("details"))
            /\ normalized.value # Obj({}))

C14_EmptyObjectInsideText ==
    /\ normalized.done
    /\ rawText = <<"a", "{", " ", "}">>
    /\ HasError(normalized.value, "Unexpected error parsing response")

\* C15 as stated: a minified JSON object between a prefix and a suffix without
\* braces is returned as the mapping it denotes.
C15_RoundTripOfAnyObject ==
    (normalized.done /\ embedded.is) => normalized.value = embedded.obj

\* C15, amended: a minified JSON object with at least one member, between a
\* prefix and a suffix without braces, is returned as the mapping it denotes;
\* the empty object gives the 'Unexpected error parsing response' envelope.
C15_RoundTripOfNonEmptyObject ==
    (normalized.done /\ embedded.is)
        => (/\ BraceSpan(rawText) = Dumps(embedded.obj)
            /\ ~HasOpen(embedded.prefix) /\ ~HasClose(embedded.prefix)
            /\ ~HasOpen(embedded.suffix) /\ ~HasClose(embedded.suffix)
            /\ IF embedded.obj = Obj({})
               THEN HasError(normalized.value, "Unexpected error parsing response")
               ELSE normalized.value = embedded.obj)

C15_RoundTripOfNestedObject ==
    /\ normalized.done
    /\ embedded.is
    /\ embedded.prefix = <<"Here", " ", "is", " ", "data", ":", " ">>
    /\ embedded.suffix = <<" ", "thanks">>
    /\ embedded.obj = Obj({[k |-> <<"a">>, v |-> Str(<<"x", " ", "}">>)],
                          [k |-> <<"b">>, v |-> Obj({[k |-> <<"a">>, v |-> Num(1)]})]})
    /\ normalized.value = embedded.obj

\* C16: the result carries the error 'Could not extract structured data', as
\* the envelope around the whole text, exactly when the text has no "{" or
\* no "}"; a text with both, in either order, is decided by parsing the span
\* from the first "{" to the last "}": the parsed object, or one of the two
\* other envelopes.
C16_CouldNotExtractIffBraceAbsent ==
    normalized.done
        => (/\ HasError(normalized.value, "Could not extract structured data")
                  <=> (~HasOpen(rawText) \/ ~HasClose(rawText))
            /\ HasError(normalized.value, "Could not extract structured data")
                  => Get(normalized.value.o, Key("raw_response")) = Str(rawText)
            /\ (HasOpen(rawText) /\ HasClose(rawText))
                  => LET parsed == JsonLoads(BraceSpan(rawText)) IN
                     IF ~parsed.ok
                     THEN HasError(normalized.value, "Invalid JSON format in response")
                     ELSE IF parsed.val = Obj({})
                     THEN HasError(normalized.value, "Unexpected error parsing response")
                     ELSE normalized.value = parsed.val)

C16_BracesInReverseOrder ==
    /\ normalized.done
    /\ rawText = <<"}", "a", "{">>
    /\ HasError(normalized.value, "Invalid JSON format in response")

\* The line of the marker of page i, without its newline.
MarkerLine(i) == <<"-----", " ", "Page", " ", ToString(i), " ", "-----">>

\* Where the block of page i starts in the text of ocr_pdf: after the blocks
\* of the pages before it and one newline for each.
RECURSIVE BlockStart(_, _)
BlockStart(pages, i) ==
    IF i = 1 THEN 1
    ELSE BlockStart(pages, i - 1) + Len(MarkerLine(i - 1)) + 1 + Len(pages[i - 1]) + 1

\* t is the blocks of pages 1..n in page order: each block is the marker of
\* its page on a line of its own and then the text of that page, a newline
\* stands between two blocks, and t holds nothing else.
PageLayout(t, pages) ==
    LET n == Len(pages)
        m == Len(MarkerLine(1))
    IN  /\ Len(t) = BlockStart(pages, n) + m + Len(pages[n])
        /\ \A i \in 1..n :
             LET b == BlockStart(pages, i) IN
             /\ SubSeq(t, b, b + m - 1) = MarkerLine(i)
             /\ t[b + m] = "\n"
             /\ SubSeq(t, b + m + 1, b + m + Len(pages[i])) = pages[i]
             /\ (i < n) => t[b + m + 1 + Len(pages[i])] = "\n"

\* upload_bill is past the OCR of an accepted upload named *.pdf.
PdfOcrOver ==
    /\ caller = "upload_bill"
    /\ pc \in {"call", "returned", "done"}
    /\ file_extension(file.filename) = ".pdf"
    /\ file.content.size <= SizeLimit
    /\ file.content.fmt = "pdf"
    /\ Len(file.content.pages) >= 1

\* C17: for a document of n >= 1 pages the text of ocr_pdf is the blocks of
\* pages 1..n in page order, each the marker line of its page followed by
\* that page's text, joined by a newline, no page skipped, duplicated or
\* reordered; when recognition fails on a page there is no text at all and
\* the request ends with the 400 of the extraction failure.
C17_PageBlocksInOrder ==
    PdfOcrOver
        => IF file.content.unreadable = 0
           THEN PageLayout(text, file.content.pages)
           ELSE /\ text = <<>>
                /\ pc = "done"
                /\ IsHardFailure(response)
                /\ response.status_code = 400

C17_TwoPagesRead ==
    /\ PdfOcrOver
    /\ pc = "done"
    /\ file.content.unreadable = 0
    /\ file.content.pages = << <<"Total", " ", "42", "\n">>, <<" ", "\n">> >>
    /\ text = <<"-----", " ", "Page", " ", "1", " ", "-----", "\n",
                "Total", " ", "42", "\n", "\n",
                "-----", " ", "Page", " ", "2", " ", "-----", "\n", " ", "\n">>

\* C18: in the events of a call, the post of attempt i+1 comes directly after
\* one sleep that comes directly after the post of attempt i, and every
\* sleep is followed by a post: the post that follows it in the trace, or,
\* while the sleep is the last event, the attempt the loop is about to make.
C18_OneWaitBetweenAttempts ==
    \A k \in 1..Len(trace) :
        /\ (IsPost(trace[k]) /\ trace[k].n >= 1)
              => (/\ k >= 3
                  /\ IsSleep(trace[k - 1])
                  /\ IsPost(trace[k - 2])
                  /\ trace[k - 2].n = trace[k].n - 1)
        /\ IsSleep(trace[k])
              => IF k < Len(trace)
                 THEN IsPost(trace[k + 1])
                 ELSE pc = "call" /\ attempt < max_retries

\* The attempts and sleeps so far are those of at most max_retries iterations
\* of the loop: indices 0, 1, 2, ... without gaps, and a sleep only directly
\* after the post of an attempt that is not the last one.
WithinRetries ==
    /\ Len(Posts(trace)) <= max_retries
    /\ \A j \in 1..Len(Posts(trace)) : Posts(trace)[j].n = j - 1
    /\ Len(Sleeps(trace)) <= (IF max_retries = 0 THEN 0 ELSE max_retries - 1)
    /\ \A k \in 1..Len(trace) :
         IsSleep(trace[k])
            => (k >= 2 /\ IsPost(trace[k - 1]) /\ trace[k - 1].n < max_retries - 1)
    /\ CallOver => call_result.ctl \in {"return", "raise"}
    /\ (CallOver /\ max_retries = 0) => (trace = <<>> /\ ServiceUnavailable)

\* C19: for every max_retries >= 0 and whatever the attempts meet, the call
\* ends, with a returned response or an error, having made at most
\* max_retries attempts with indices 0, 1, 2, ... in order, at most
\* max_retries - 1 sleeps (none when max_retries = 0), none of them after
\* attempt max_retries - 1; with max_retries = 0 it posts nothing and ends
\* in ServiceUnavailable.
C19_TerminatesWithinRetries ==
    /\ []WithinRetries
    /\ (pc = "call") ~> CallOver

C19_AllAttemptsUsed ==
    /\ CallOver
    /\ max_retries >= 3
    /\ Len(Posts(trace)) = max_retries
    /\ Len(Sleeps(trace)) = max_retries - 1
    /\ ServiceUnavailable

\* The error statuses of OtherStatuses that no branch of the loop names.
UnnamedErrorStatuses == {s \in OtherStatuses : RaisesForStatus(s)} \ {400, 429, 503}

\* C20: a response with an error status other than 400, 429 and 503, on
\* whichever attempt, is the last event of the call: no sleep and no post
\* follow it, the call raises the HTTPError of that status, which is neither
\* InvalidRequest nor ServiceUnavailable, and upload_bill answers with the
\* text-only result.
C20_OtherErrorStatusEndsCall ==
    \A k \in 1..Len(trace) :
        (\E s \in UnnamedErrorStatuses : HasStatus(trace[k], s))
            => (/\ k = Len(trace)
                /\ CallOver
                /\ call_result.ctl = "raise"
                /\ call_result.exc.type = "HTTPError"
                /\ call_result.exc.status_code = trace[k].outcome.status_code
                /\ ~InvalidRequest
                /\ ~ServiceUnavailable
                /\ (caller = "upload_bill" /\ pc = "done") => IsTextOnly(response))

C20_ServerErrorOnSecondAttempt ==
    /\ caller = "upload_bill"
    /\ pc = "done"
    /\ Len(trace) = 3
    /\ HasStatus(trace[3], 500)
    /\ trace[3].n = 1
    /\ IsTextOnly(response)

====
